---- MODULE Spec2Model ----
(***************************************************************************)
(* A model of the matchsorter crate: the Ranking order, the match          *)
(* classifier get_match_ranking with its helpers, the key layer, the sort  *)
(* comparator and the match_sorter pipeline.                               *)
(*                                                                         *)
(* Strings are sequences of Unicode scalar values (numbers).  Byte-level   *)
(* operations of the code (memmem search, byte lengths, the byte before a  *)
(* match) run on the UTF-8 encoding of those sequences.                    *)
(***************************************************************************)
EXTENDS Integers, Sequences, FiniteSets, TLC

VARIABLES
    pc,               \* position of the modelled call
    test_string,      \* get_match_ranking: the candidate
    string_to_rank,   \* get_match_ranking: the query
    keep_diacritics,  \* get_match_ranking: the flag
    rank,             \* get_match_ranking: the returned Ranking
    acronym,          \* get_acronym: the returned String
    ord_a, ord_b, ord_c,   \* Ranking values handed to eq / partial_cmp
    ord_out,          \* results of the comparisons on ord_a, ord_b, ord_c
    items,            \* match_sorter: the input slice
    value,            \* match_sorter: the query
    options,          \* match_sorter: the MatchSorterOptions
    pq,               \* match_sorter: the PreparedQuery
    finder,           \* match_sorter: the substring searcher, if any
    candidate_buf,    \* match_sorter: the reused lowercasing buffer
    index,            \* match_sorter: how many items the loop has ranked
    ranked_items,     \* match_sorter: the vector of RankedItems
    output,           \* match_sorter: the returned references
    highest,          \* get_highest_ranking: its locals, and the values ranked so far
    ordering          \* sort_ranked_values: the returned Ordering, the calls of base_sort

rankVars == <<test_string, string_to_rank, keep_diacritics, rank, acronym>>
ordVars == <<ord_a, ord_b, ord_c, ord_out>>
sorterVars ==
    <<items, value, options, pq, finder, candidate_buf, index, ranked_items, output>>
vars == <<pc, rankVars, ordVars, sorterVars, highest, ordering>>

-----------------------------------------------------------------------------
(* Bounds of the model. *)

MaxCandLen == 4
MaxQueryLen == 2
MaxItems == 3

-----------------------------------------------------------------------------
(* Option<T>: None is the empty sequence, Some(x) a one-element sequence. *)

None == <<>>
Some(x) == <<x>>
unwrap_or(o, d) == IF o = <<>> THEN d ELSE o[1]

Max2(a, b) == IF a >= b THEN a ELSE b

-----------------------------------------------------------------------------
(* Ranking: the eight tiers; Matches carries an f64 sub-score, modelled as *)
(* the fraction num/den (den > 0), and as NaN when den = 0.                *)

Tier(t) == [tag |-> t, num |-> 0, den |-> 1]
CaseSensitiveEqual == Tier("CaseSensitiveEqual")
Equal == Tier("Equal")
StartsWith == Tier("StartsWith")
WordStartsWith == Tier("WordStartsWith")
Contains == Tier("Contains")
Acronym == Tier("Acronym")
NoMatch == Tier("NoMatch")
Matches(n, d) == [tag |-> "Matches", num |-> n, den |-> d]
NaN == Matches(0, 0)

is_nan(r) == r.tag = "Matches" /\ r.den = 0

tier_value(r) ==
    CASE r.tag = "CaseSensitiveEqual" -> 7
      [] r.tag = "Equal" -> 6
      [] r.tag = "StartsWith" -> 5
      [] r.tag = "WordStartsWith" -> 4
      [] r.tag = "Contains" -> 3
      [] r.tag = "Acronym" -> 2
      [] r.tag = "Matches" -> 1
      [] r.tag = "NoMatch" -> 0

\* f64 == and partial_cmp on two sub-scores.
f64_eq(a, b) == a.den # 0 /\ b.den # 0 /\ a.num * b.den = b.num * a.den
f64_partial_cmp(a, b) ==
    IF a.den = 0 \/ b.den = 0 THEN "None"
    ELSE IF a.num * b.den < b.num * a.den THEN "Less"
    ELSE IF a.num * b.den > b.num * a.den THEN "Greater"
    ELSE "Equal"

int_cmp(x, y) == IF x < y THEN "Less" ELSE IF x > y THEN "Greater" ELSE "Equal"

\* impl PartialEq for Ranking
ranking_eq(a, b) ==
    IF a.tag = "Matches" /\ b.tag = "Matches" THEN f64_eq(a, b)
    ELSE tier_value(a) = tier_value(b)

partial_cmp_by_tier_only(a, b) == int_cmp(tier_value(a), tier_value(b))

\* impl PartialOrd for Ranking
partial_cmp(a, b) ==
    IF a.tag = "Matches" /\ b.tag = "Matches" THEN f64_partial_cmp(a, b)
    ELSE int_cmp(tier_value(a), tier_value(b))

\* The comparison operators PartialOrd derives from partial_cmp.
ranking_gt(a, b) == partial_cmp(a, b) = "Greater"
ranking_lt(a, b) == partial_cmp(a, b) = "Less"
ranking_ge(a, b) == partial_cmp(a, b) \in {"Greater", "Equal"}

-----------------------------------------------------------------------------
(* Characters and strings. *)

\* str::is_ascii
is_ascii(s) == \A i \in 1..Len(s) : s[i] < 128

\* The UTF-8 encoding of one scalar value.
encode_utf8(c) ==
    IF c < 128 THEN <<c>>
    ELSE IF c < 2048 THEN <<192 + (c \div 64), 128 + (c % 64)>>
    ELSE <<224 + (c \div 4096), 128 + ((c \div 64) % 64), 128 + (c % 64)>>

\* str::as_bytes
RECURSIVE as_bytes(_)
as_bytes(s) == IF s = <<>> THEN <<>> ELSE encode_utf8(Head(s)) \o as_bytes(Tail(s))

\* str::len: the length in bytes
byte_len(s) == Len(as_bytes(s))

\* str::chars().count()
chars_count(s) == Len(s)

\* unicode_normalization::char::is_combining_mark
is_combining_mark(c) == c \in {769, 775}

\* Canonical decomposition of one scalar value.
canonical_decomposition(c) ==
    CASE c = 233 -> <<101, 769>>     \* e-acute = e + combining acute
      [] c = 201 -> <<69, 769>>      \* E-acute = E + combining acute
      [] c = 304 -> <<73, 775>>      \* I-with-dot = I + combining dot above
      [] OTHER -> <<c>>

\* s.nfd(): every character decomposed (the marks of the model share one
\* combining class, so canonical reordering leaves them in place).
RECURSIVE nfd(_)
nfd(s) == IF s = <<>> THEN <<>> ELSE canonical_decomposition(Head(s)) \o nfd(Tail(s))

strip_marks(s) == SelectSeq(s, LAMBDA c : ~is_combining_mark(c))

prepare_keep_always(s, keep) == s

prepare_value_for_comparison(s, keep) ==
    IF keep THEN s
    ELSE IF is_ascii(s) THEN s
    ELSE LET stripped == strip_marks(nfd(s))
         IN IF stripped = s THEN s ELSE stripped

\* char::to_lowercase: one to three scalar values.
char_to_lowercase(c) ==
    CASE c >= 65 /\ c <= 90 -> <<c + 32>>
      [] c = 201 -> <<233>>
      [] c = 304 -> <<105, 775>>     \* I-with-dot lowercases to i + dot above
      [] c = 931 -> <<963>>          \* capital sigma to small sigma
      [] OTHER -> <<c>>

\* u8::to_ascii_lowercase
to_ascii_lowercase(b) == IF b >= 65 /\ b <= 90 THEN b + 32 ELSE b

\* core::unicode Cased and Case_Ignorable, on the characters of the model.
Cased(c) ==
    \/ (c >= 65 /\ c <= 90) \/ (c >= 97 /\ c <= 122)
    \/ c \in {201, 233, 304, 931, 962, 963}
Case_Ignorable(c) == c \in {39, 46, 58, 94, 96, 769, 775}

RECURSIVE case_ignorable_then_cased(_)
case_ignorable_then_cased(s) ==
    IF s = <<>> THEN FALSE
    ELSE IF Case_Ignorable(Head(s)) THEN case_ignorable_then_cased(Tail(s))
    ELSE Cased(Head(s))

Reverse(s) == [i \in 1..Len(s) |-> s[Len(s) + 1 - i]]

\* str::to_lowercase: per character, but a capital sigma that ends a word
\* becomes the final sigma.
str_to_lowercase_at(s, i) ==
    IF s[i] = 931
    THEN IF /\ case_ignorable_then_cased(Reverse(SubSeq(s, 1, i - 1)))
            /\ ~case_ignorable_then_cased(SubSeq(s, i + 1, Len(s)))
         THEN <<962>> ELSE <<963>>
    ELSE char_to_lowercase(s[i])

RECURSIVE str_to_lowercase_from(_, _)
str_to_lowercase_from(s, i) ==
    IF i > Len(s) THEN <<>>
    ELSE str_to_lowercase_at(s, i) \o str_to_lowercase_from(s, i + 1)

str_to_lowercase(s) == str_to_lowercase_from(s, 1)

RECURSIVE chars_to_lowercase(_)
chars_to_lowercase(s) ==
    IF s = <<>> THEN <<>> ELSE char_to_lowercase(Head(s)) \o chars_to_lowercase(Tail(s))

\* A lowercase_into that does not clear the buffer first.
lowercase_into_uncleared(s, buf) ==
    IF is_ascii(s)
    THEN buf \o [i \in 1..Len(s) |-> to_ascii_lowercase(s[i])]
    ELSE buf \o chars_to_lowercase(s)

\* lowercase_into(s, buf): the new contents of buf.
lowercase_into(s, buf) ==
    LET cleared == <<>>
    IN IF is_ascii(s)
       THEN cleared \o [i \in 1..Len(s) |-> to_ascii_lowercase(s[i])]
       ELSE cleared \o chars_to_lowercase(s)

\* The character count both PreparedQuery::new and the candidate side use:
\* the byte length on the ASCII fast path, chars().count() otherwise.
char_count_of(s) == IF is_ascii(s) THEN byte_len(s) ELSE chars_count(s)

PreparedQuery_new_byte_len(query, keep) ==
    LET prepared == prepare_value_for_comparison(query, keep)
        lower == str_to_lowercase(prepared)
    IN [prepared |-> prepared, lower |-> lower, char_count |-> byte_len(lower)]

\* PreparedQuery::new
PreparedQuery_new(query, keep) ==
    LET prepared == prepare_value_for_comparison(query, keep)
        lower == str_to_lowercase(prepared)
    IN [prepared |-> prepared, lower |-> lower, char_count |-> char_count_of(lower)]

-----------------------------------------------------------------------------
(* Substring search. *)

\* The first occurrence of needle in haystack at or after pos (0-based),
\* or -1.
RECURSIVE find_at_or_after(_, _, _)
find_at_or_after(needle, haystack, pos) ==
    IF pos + Len(needle) > Len(haystack) THEN -1
    ELSE IF SubSeq(haystack, pos + 1, pos + Len(needle)) = needle THEN pos
    ELSE find_at_or_after(needle, haystack, pos + 1)

\* memmem::Finder::find_iter: the positions the iterator yields.  After a
\* match at p the search resumes at p + max(1, needle length), so the
\* occurrences reported do not overlap.
RECURSIVE find_iter_from(_, _, _)
find_iter_from(needle, haystack, pos) ==
    LET idx == find_at_or_after(needle, haystack, pos)
    IN IF idx = -1 THEN <<>>
       ELSE <<idx>> \o find_iter_from(needle, haystack, idx + Max2(1, Len(needle)))

find_iter(needle, haystack) == find_iter_from(needle, haystack, 0)

\* str::contains
str_contains(haystack, needle) ==
    find_at_or_after(as_bytes(needle), as_bytes(haystack), 0) # -1

-----------------------------------------------------------------------------
(* Closeness scorer and acronym extractor. *)

\* Iterator::find on candidate.chars().enumerate(): the 0-based position of
\* the first c at or after next, or -1.
\* A search that restarts from the front of the candidate.
chars_find_from_front(candidate, next, c) ==
    IF \E p \in 1..Len(candidate) : candidate[p] = c
    THEN (CHOOSE p \in 1..Len(candidate) :
              candidate[p] = c /\ \A o \in 1..(p - 1) : candidate[o] # c) - 1
    ELSE -1

RECURSIVE chars_find(_, _, _)
chars_find(candidate, next, c) ==
    IF next >= Len(candidate) THEN -1
    ELSE IF candidate[next + 1] = c THEN next
    ELSE chars_find(candidate, next + 1, c)

\* The loop of get_closeness_ranking from query character qi on.
\* next: how many candidate characters the iterator has consumed.
RECURSIVE closeness_loop(_, _, _, _, _, _)
closeness_loop(candidate, query, qi, next, first_match_index, last_match_index) ==
    IF qi > Len(query)
    THEN LET first == unwrap_or(first_match_index, 0)
             spread == last_match_index - first
         IN IF spread = 0 THEN Matches(2, 1) ELSE Matches(spread + 1, spread)
    ELSE LET found == chars_find(candidate, next, query[qi])
         IN IF found = -1 THEN NoMatch
            ELSE closeness_loop(candidate, query, qi + 1, found + 1,
                                IF first_match_index = None THEN Some(found)
                                ELSE first_match_index,
                                found)

get_closeness_ranking(candidate, query) ==
    closeness_loop(candidate, query, 1, 0, None, 0)

\* A delimiter test that takes the underscore as well.
is_acronym_delimiter_with_underscore(c) == c = 32 \/ c = 45 \/ c = 95

is_acronym_delimiter(c) == c = 32 \/ c = 45

RECURSIVE acronym_loop(_, _, _)
acronym_loop(s, i, prev) ==
    IF i > Len(s) THEN <<>>
    ELSE (IF is_acronym_delimiter(prev) /\ ~is_acronym_delimiter(s[i])
          THEN <<s[i]>> ELSE <<>>) \o acronym_loop(s, i + 1, s[i])

get_acronym(s) ==
    IF s = <<>> THEN <<>>
    ELSE <<s[1]>> \o acronym_loop(s, 2, s[1])

-----------------------------------------------------------------------------
(* The match classifier. *)

\* Steps 9-11 of get_match_ranking_prepared: no substring match was found.
rank_without_substring(buf, pquery) ==
    IF pquery.char_count = 1 THEN NoMatch
    ELSE IF str_contains(get_acronym(buf), pquery.lower) THEN Acronym
    ELSE get_closeness_ranking(buf, pquery.lower)

\* Steps 4-8 of get_match_ranking_prepared, on the lowercased candidate.
\* candidate_bytes[p - 1] of the code (0-based) is candidate_bytes[p] here.
rank_lowercased(buf, pquery, searcher) ==
    IF searcher # None
    THEN LET candidate_bytes == as_bytes(buf)
             iter == find_iter(searcher[1], candidate_bytes)
         IN IF iter # <<>>
            THEN LET first == iter[1]
                 IN IF first = 0
                    THEN IF byte_len(buf) = byte_len(pquery.lower)
                         THEN Equal ELSE StartsWith
                    ELSE IF candidate_bytes[first] = 32 THEN WordStartsWith
                    ELSE IF \E k \in 2..Len(iter) :
                                iter[k] > 0 /\ candidate_bytes[iter[k]] = 32
                         THEN WordStartsWith
                    ELSE Contains
            ELSE rank_without_substring(buf, pquery)
    ELSE IF buf = <<>> THEN Equal ELSE StartsWith

candidate_char_count_lowered(candidate) == char_count_of(chars_to_lowercase(candidate))

\* Step 1 of get_match_ranking_prepared: the character count of the
\* prepared candidate.
candidate_char_count(candidate) == char_count_of(candidate)

\* get_match_ranking_prepared: the rank, and buf as the call
\* leaves it (an early return does not touch the buffer).
get_match_ranking_prepared(ts, pquery, keep, buf, searcher) ==
    LET candidate == prepare_value_for_comparison(ts, keep)
    IN IF pquery.char_count > candidate_char_count(candidate)
       THEN [rank |-> NoMatch, candidate_buf |-> buf]
       ELSE IF as_bytes(candidate) = as_bytes(pquery.prepared)
       THEN [rank |-> CaseSensitiveEqual, candidate_buf |-> buf]
       ELSE LET lowered == lowercase_into(candidate, buf)
            IN [rank |-> rank_lowercased(lowered, pquery, searcher),
                candidate_buf |-> lowered]

\* The searcher both entry points build: None for an empty query.
Finder_for(pquery) ==
    IF pquery.lower = <<>> THEN None ELSE Some(as_bytes(pquery.lower))

get_match_ranking(ts, query, keep) ==
    LET pquery == PreparedQuery_new(query, keep)
    IN get_match_ranking_prepared(ts, pquery, keep, <<>>, Finder_for(pquery)).rank

-----------------------------------------------------------------------------
(* The key layer.  An item is a record of two string fields f1 and f2; its *)
(* AsMatchStr view is f1.  A key's extractor is one of four closures,      *)
(* named by what they return.                                              *)

as_match_str(item) == item.f1

Key_new(extractor) ==
    [extractor |-> extractor, threshold |-> None,
     min_ranking |-> NoMatch, max_ranking |-> CaseSensitiveEqual]
Key_threshold(key, t) == [key EXCEPT !.threshold = Some(t)]
Key_max_ranking(key, r) == [key EXCEPT !.max_ranking = r]
Key_min_ranking(key, r) == [key EXCEPT !.min_ranking = r]

Key_extract(key, item) ==
    CASE key.extractor = "f1" -> << item.f1 >>
      [] key.extractor = "f2" -> << item.f2 >>
      [] key.extractor = "both" -> << item.f1, item.f2 >>
      [] OTHER -> << >>

\* impl Default for MatchSorterOptions
MatchSorterOptions_default ==
    [keys |-> <<>>, threshold |-> Matches(1, 1), keep_diacritics |-> FALSE,
     base_sort |-> None, sorter |-> None]

\* The running best before any value is ranked.
RankingInfo_start ==
    [rank |-> NoMatch, ranked_value |-> <<>>, key_index |-> 0, key_threshold |-> None]

\* Clamp down to the key's max_ranking, then promote up to its min_ranking
\* (never from NoMatch).
clamp_to_max(r, max) == IF ranking_gt(r, max) THEN max ELSE r
\* A promotion that lifts NoMatch as well.
promote_even_no_match(r, min) == IF ranking_lt(r, min) THEN min ELSE r

promote_to_min(r, min) ==
    IF ranking_lt(r, min) /\ ~ranking_eq(r, NoMatch) THEN min ELSE r

\* A running best that is replaced on an equal rank as well.
update_best_on_tie(best, r, val, key_index, key) ==
    IF ranking_ge(r, best.rank)
    THEN [rank |-> r, ranked_value |-> val, key_index |-> key_index,
          key_threshold |-> key.threshold]
    ELSE best

\* The running best after one more value: replaced on a strictly greater
\* rank only.
update_best(best, r, val, key_index, key) ==
    IF ranking_gt(r, best.rank)
    THEN [rank |-> r, ranked_value |-> val, key_index |-> key_index,
          key_threshold |-> key.threshold]
    ELSE best

\* get_highest_ranking: the inner loop over one key's values, from value v
\* on; acc carries the running best and the key_index counter.
RECURSIVE highest_over_values(_, _, _, _, _, _)
highest_over_values(values, v, key, query, opts, acc) ==
    IF v > Len(values) THEN acc
    ELSE LET raw == get_match_ranking(values[v], query, opts.keep_diacritics)
             r == promote_to_min(clamp_to_max(raw, key.max_ranking), key.min_ranking)
         IN highest_over_values(values, v + 1, key, query, opts,
                [best |-> update_best(acc.best, r, values[v], acc.key_index, key),
                 key_index |-> acc.key_index + 1])

\* get_highest_ranking: the outer loop over the keys, from key k on.
RECURSIVE highest_over_keys(_, _, _, _, _, _)
highest_over_keys(item, keys, k, query, opts, acc) ==
    IF k > Len(keys) THEN acc
    ELSE highest_over_keys(item, keys, k + 1, query, opts,
            highest_over_values(Key_extract(keys[k], item), 1, keys[k], query, opts, acc))

get_highest_ranking(item, keys, query, opts) ==
    highest_over_keys(item, keys, 1, query, opts,
                      [best |-> RankingInfo_start, key_index |-> 0]).best

\* get_highest_ranking_prepared: the same evaluation with the query prepared
\* once, the searcher shared and the lowercasing buffer reused from value to
\* value; acc also carries the buffer.
RECURSIVE highest_prepared_over_values(_, _, _, _, _, _, _)
highest_prepared_over_values(values, v, key, pquery, opts, searcher, acc) ==
    IF v > Len(values) THEN acc
    ELSE LET got == get_match_ranking_prepared(values[v], pquery, opts.keep_diacritics,
                                               acc.candidate_buf, searcher)
             r == promote_to_min(clamp_to_max(got.rank, key.max_ranking), key.min_ranking)
         IN highest_prepared_over_values(values, v + 1, key, pquery, opts, searcher,
                [best |-> update_best(acc.best, r, values[v], acc.key_index, key),
                 key_index |-> acc.key_index + 1,
                 candidate_buf |-> got.candidate_buf])

RECURSIVE highest_prepared_over_keys(_, _, _, _, _, _, _)
highest_prepared_over_keys(item, keys, k, pquery, opts, searcher, acc) ==
    IF k > Len(keys) THEN acc
    ELSE highest_prepared_over_keys(item, keys, k + 1, pquery, opts, searcher,
            highest_prepared_over_values(Key_extract(keys[k], item), 1, keys[k],
                                         pquery, opts, searcher, acc))

\* The RankingInfo, and buf as the call leaves it.
get_highest_ranking_prepared(item, keys, pquery, opts, buf, searcher) ==
    LET acc == highest_prepared_over_keys(item, keys, 1, pquery, opts, searcher,
                  [best |-> RankingInfo_start, key_index |-> 0,
                   candidate_buf |-> buf])
    IN [info |-> acc.best, candidate_buf |-> acc.candidate_buf]

-----------------------------------------------------------------------------
(* The sort comparator.  A RankedItem is a record of item (the reference   *)
(* into the input slice, modelled as the 0-based position), index, rank,   *)
(* ranked_value, key_index and key_threshold.  Orderings are "Less",       *)
(* "Equal" and "Greater".                                                  *)

\* Ord for str: byte-wise lexicographic.
RECURSIVE bytes_cmp(_, _, _)
bytes_cmp(x, y, i) ==
    IF i > Len(x) /\ i > Len(y) THEN "Equal"
    ELSE IF i > Len(x) THEN "Less"
    ELSE IF i > Len(y) THEN "Greater"
    ELSE IF x[i] # y[i] THEN int_cmp(x[i], y[i])
    ELSE bytes_cmp(x, y, i + 1)
str_cmp(x, y) == bytes_cmp(as_bytes(x), as_bytes(y), 1)

\* A tiebreaker that falls back on the original index.
base_sort_then_index(a, b) ==
    IF str_cmp(a.ranked_value, b.ranked_value) # "Equal"
    THEN str_cmp(a.ranked_value, b.ranked_value)
    ELSE int_cmp(a.index, b.index)

default_base_sort(a, b) == str_cmp(a.ranked_value, b.ranked_value)

\* A base_sort function is called by its name: default_base_sort, or one of
\* the caller's closures, two consistent ones, and one that answers Less for
\* any two different ranked values, whatever the order of its arguments.
call_base_sort(f, a, b) ==
    CASE f = "default_base_sort" -> default_base_sort(a, b)
      [] f = "index_desc" -> int_cmp(b.index, a.index)
      [] f = "always_equal" -> "Equal"
      [] OTHER -> IF a.ranked_value = b.ranked_value THEN "Equal" ELSE "Less"

then_with(o, next) == IF o = "Equal" THEN next ELSE o
unwrap_or_equal(o) == IF o = "None" THEN "Equal" ELSE o

\* A comparator that calls base_sort whatever levels 1 and 2 gave.
base_sort_calls_always(a, b) == 1

\* How often sort_ranked_values calls base_sort: the closure handed to the
\* last then_with runs only when the levels before it gave Equal.
base_sort_calls(a, b) ==
    IF then_with(unwrap_or_equal(partial_cmp(b.rank, a.rank)),
                 int_cmp(a.key_index, b.key_index)) = "Equal"
    THEN 1 ELSE 0

sort_ranked_values(a, b, base_sort) ==
    then_with(then_with(unwrap_or_equal(partial_cmp(b.rank, a.rank)),
                        int_cmp(a.key_index, b.key_index)),
              call_base_sort(base_sort, a, b))

sort_by_closure_rank_ascending(a, b, opts) ==
    then_with(unwrap_or_equal(partial_cmp(a.rank, b.rank)),
              then_with(int_cmp(a.key_index, b.key_index), default_base_sort(a, b)))

\* The closure match_sorter hands to sort_by.
sort_by_closure(a, b, opts) ==
    IF opts.base_sort # None
    THEN sort_ranked_values(a, b, opts.base_sort[1])
    ELSE sort_ranked_values(a, b, "default_base_sort")

\* slice::sort_by asks for a total order on the elements it sorts.
is_total_order(v, opts) ==
    LET cmp(i, j) == sort_by_closure(v[i], v[j], opts)
        n == Len(v)
    IN /\ \A i, j \in 1..n :
             i # j => /\ (cmp(i, j) = "Less") <=> (cmp(j, i) = "Greater")
                      /\ (cmp(i, j) = "Equal") <=> (cmp(j, i) = "Equal")
       /\ \A i, j, k \in 1..n :
             (i # j /\ j # k /\ i # k /\ cmp(i, j) # "Greater" /\ cmp(j, k) # "Greater")
                => /\ cmp(i, k) # "Greater"
                   /\ (cmp(i, j) = "Less" \/ cmp(j, k) = "Less") => cmp(i, k) = "Less"

RECURSIVE insert_before_equal(_, _, _)
insert_before_equal(sorted, x, opts) ==
    IF sorted = <<>> THEN << x >>
    ELSE IF sort_by_closure(x, sorted[Len(sorted)], opts) # "Greater"
    THEN Append(insert_before_equal(SubSeq(sorted, 1, Len(sorted) - 1), x, opts),
                sorted[Len(sorted)])
    ELSE Append(sorted, x)

\* slice::sort_by under a total order: the stable sort, here by insertion
\* after the last element that is not greater.
RECURSIVE insert_stable(_, _, _)
insert_stable(sorted, x, opts) ==
    IF sorted = <<>> THEN << x >>
    ELSE IF sort_by_closure(x, sorted[Len(sorted)], opts) = "Less"
    THEN Append(insert_stable(SubSeq(sorted, 1, Len(sorted) - 1), x, opts),
                sorted[Len(sorted)])
    ELSE Append(sorted, x)

RECURSIVE sort_by_from(_, _, _, _)
sort_by_from(v, i, sorted, opts) ==
    IF i > Len(v) THEN sorted
    ELSE sort_by_from(v, i + 1, insert_stable(sorted, v[i], opts), opts)

sort_by(v, opts) == sort_by_from(v, 1, <<>>, opts)

\* slice::sort_by without a total order: the elements all remain, in an
\* unspecified order.
Permutations_of(v) ==
    { [i \in 1..Len(v) |-> v[p[i]]] :
        p \in { q \in [1..Len(v) -> 1..Len(v)] : \A i, j \in 1..Len(v) : q[i] = q[j] => i = j } }

\* Caller-supplied sorter closures, by name.
call_sorter(f, v) ==
    CASE f = "identity" -> v
      [] f = "reverse" -> Reverse(v)
      [] f = "take_first" -> SubSeq(v, 1, IF Len(v) >= 1 THEN 1 ELSE 0)
      [] OTHER -> v \o v

extract_items_but_first(v) == [i \in 1..(Len(v) - 1) |-> v[i + 1].item]

\* Step 3 of match_sorter: the references of the ranked items, in order.
extract_items(v) == [i \in 1..Len(v) |-> v[i].item]

-----------------------------------------------------------------------------
(* Inputs. *)

\* The characters strings are drawn from, three at a time:
\*   32 space, 45 hyphen, 95 underscore, 65 A, 97 a, 98 b, 99 c, 101 e,
\*   233 e-acute, 769 combining acute, 304 I-with-dot, 105 i,
\*   775 combining dot above, 931 capital sigma, 962 final sigma, 963 sigma.
Alphabets ==
    { {97, 98, 32}, {97, 98, 45}, {97, 32, 45}, {97, 98, 95}, {97, 65, 32},
      {97, 98, 99}, {101, 233, 769}, {304, 105, 775}, {304, 97, 65},
      {931, 962, 963}, {931, 963, 97} }

\* The alphabets of a candidate and of a query: the same one for both, or
\* i, a and the combining dot for the candidate with I-with-dot and i for the
\* query.
AlphabetPairs ==
    { << A, A >> : A \in Alphabets } \cup { << {105, 97, 775}, {304, 105} >> }

\* Characters for get_closeness_ranking (only their equality matters) and for
\* get_acronym (space, hyphen, and characters that are no delimiter).
ClosenessAlphabets == { {97, 98, 99}, {97, 233} }
AcronymAlphabets == { {97, 32, 45}, {97, 98, 32}, {97, 95, 32}, {97, 45, 95}, {97, 9, 45} }

StringsOver(A, n) == UNION { [1..k -> A] : k \in 0..n }

\* Sub-scores handed to Matches: inside (1.0, 2.0], outside it, and NaN.
SubScores == { <<1, 2>>, <<1, 1>>, <<5, 4>>, <<3, 2>>, <<2, 1>>, <<3, 1>>, <<0, 0>> }

Rankings ==
    { CaseSensitiveEqual, Equal, StartsWith, WordStartsWith, Contains, Acronym, NoMatch }
    \cup { Matches(s[1], s[2]) : s \in SubScores }

NoOrdOut == [ab |-> "None", ba |-> "None", bc |-> "None", ac |-> "None", eq_ab |-> FALSE]

RankIdle ==
    /\ test_string = <<>> /\ string_to_rank = <<>>
    /\ keep_diacritics = FALSE /\ rank = NoMatch /\ acronym = <<>>
OrdIdle ==
    /\ ord_a = NoMatch /\ ord_b = NoMatch /\ ord_c = NoMatch /\ ord_out = NoOrdOut
\* get_highest_ranking at its entry: the initial best, the counter at 0, the
\* loops before the first key and its first value.
Highest_start ==
    [best |-> RankingInfo_start, key_index |-> 0, key |-> 1, val |-> 1, ranked |-> <<>>]
HighestIdle ==
    /\ highest = Highest_start
    /\ ordering = [result |-> "Equal", base_sort_calls |-> 0]
SorterIdle ==
    /\ items = <<>> /\ value = <<>> /\ options = MatchSorterOptions_default
    /\ pq = PreparedQuery_new(<<>>, FALSE) /\ finder = None /\ candidate_buf = <<>>
    /\ index = 0 /\ ranked_items = <<>> /\ output = <<>>

-----------------------------------------------------------------------------
(* get_match_ranking called on one candidate and one query. *)

InitRanking ==
    /\ pc = "rank_call"
    /\ \E alpha \in AlphabetPairs :
          /\ test_string \in StringsOver(alpha[1], MaxCandLen)
          /\ string_to_rank \in StringsOver(alpha[2], MaxQueryLen)
    /\ keep_diacritics \in BOOLEAN
    /\ rank = NoMatch
    /\ acronym = <<>>
    /\ OrdIdle
    /\ SorterIdle
    /\ HighestIdle

GetMatchRanking ==
    /\ pc = "rank_call"
    /\ rank' = get_match_ranking(test_string, string_to_rank, keep_diacritics)
    /\ pc' = "rank_done"
    /\ UNCHANGED <<test_string, string_to_rank, keep_diacritics, acronym,
                   ordVars, sorterVars, highest, ordering>>

NextRanking == GetMatchRanking

SpecRanking == InitRanking /\ [][NextRanking]_vars

(***************************************************************************)
(* get_closeness_ranking applied to a candidate and a query.  The          *)
(* classifier only reaches it with a query of two characters or more that  *)
(* is no substring; the function itself is total, so the query here is of  *)
(* any length, one character longer than the classifier's.                 *)
(***************************************************************************)
InitCloseness ==
    /\ pc = "closeness_call"
    /\ \E alpha \in ClosenessAlphabets :
          /\ test_string \in StringsOver(alpha, MaxCandLen)
          /\ string_to_rank \in StringsOver(alpha, MaxQueryLen + 1)
    /\ keep_diacritics = FALSE
    /\ rank = NoMatch
    /\ acronym = <<>>
    /\ OrdIdle
    /\ SorterIdle
    /\ HighestIdle

GetClosenessRanking ==
    /\ pc = "closeness_call"
    /\ rank' = get_closeness_ranking(test_string, string_to_rank)
    /\ pc' = "closeness_done"
    /\ UNCHANGED <<test_string, string_to_rank, keep_diacritics, acronym,
                   ordVars, sorterVars, highest, ordering>>

NextCloseness == GetClosenessRanking

SpecCloseness == InitCloseness /\ [][NextCloseness]_vars

(***************************************************************************)
(* get_acronym applied to a string.                                        *)
(***************************************************************************)
InitAcronym ==
    /\ pc = "acronym_call"
    /\ \E alpha \in AcronymAlphabets : test_string \in StringsOver(alpha, MaxCandLen)
    /\ string_to_rank = <<>>
    /\ keep_diacritics = FALSE
    /\ rank = NoMatch
    /\ acronym = <<>>
    /\ OrdIdle
    /\ SorterIdle
    /\ HighestIdle

GetAcronym ==
    /\ pc = "acronym_call"
    /\ acronym' = get_acronym(test_string)
    /\ pc' = "acronym_done"
    /\ UNCHANGED <<test_string, string_to_rank, keep_diacritics, rank,
                   ordVars, sorterVars, highest, ordering>>

NextAcronym == GetAcronym

SpecAcronym == InitAcronym /\ [][NextAcronym]_vars

-----------------------------------------------------------------------------
(* Ranking values compared with == and partial_cmp. *)

InitOrder ==
    /\ pc = "ord_call"
    /\ ord_a \in Rankings /\ ord_b \in Rankings /\ ord_c \in Rankings
    /\ ord_out = NoOrdOut
    /\ RankIdle
    /\ SorterIdle
    /\ HighestIdle

Compare ==
    /\ pc = "ord_call"
    /\ ord_out' = [ab |-> partial_cmp(ord_a, ord_b), ba |-> partial_cmp(ord_b, ord_a),
                   bc |-> partial_cmp(ord_b, ord_c), ac |-> partial_cmp(ord_a, ord_c),
                   eq_ab |-> ranking_eq(ord_a, ord_b)]
    /\ pc' = "ord_done"
    /\ UNCHANGED <<ord_a, ord_b, ord_c, rankVars, sorterVars, highest, ordering>>

NextOrder == Compare

SpecOrder == InitOrder /\ [][NextOrder]_vars

-----------------------------------------------------------------------------
(* match_sorter called on a slice of items, a query and options.           *)

\* The items: ("ab", "Ab"), ("c", "ab"), ("accb", "acb"), ("accb", "ab").
ItemPool ==
    { [f1 |-> <<97, 98>>, f2 |-> <<65, 98>>],
      [f1 |-> <<99>>, f2 |-> <<97, 98>>],
      [f1 |-> <<97, 99, 99, 98>>, f2 |-> <<97, 99, 98>>],
      [f1 |-> <<97, 99, 99, 98>>, f2 |-> <<97, 98>>] }

\* The keys configurations: none, one key, two keys, one key with two
\* values, per-key thresholds stricter and more permissive than the global
\* one, clamped and promoted keys, a key without values, and a key whose
\* max_ranking is a NaN sub-score, and one key with threshold NoMatch.
KeyConfigs ==
    { <<>>,
      << Key_new("f1") >>,
      << Key_new("f1"), Key_new("f2") >>,
      << Key_new("both") >>,
      << Key_threshold(Key_new("f2"), CaseSensitiveEqual), Key_new("f1") >>,
      << Key_threshold(Key_new("f2"), Matches(1, 1)), Key_new("f1") >>,
      << Key_max_ranking(Key_new("f1"), Contains), Key_new("f2") >>,
      << Key_min_ranking(Key_new("f1"), Contains) >>,
      << Key_new("none") >>,
      << Key_threshold(Key_max_ranking(Key_new("both"), NaN), NoMatch) >>,
      << Key_threshold(Key_new("f1"), NoMatch) >> }

FewKeyConfigs == { <<>>, << Key_new("f1"), Key_new("f2") >> }

BaseSorts == { "index_desc", "always_equal", "less_unless_same" }
Sorters == { "identity", "reverse", "take_first", "duplicate" }

OptionsWith(k, t) == [MatchSorterOptions_default EXCEPT !.keys = k, !.threshold = t]

\* The options: every keys configuration under the default threshold; three
\* of them under NoMatch, and three under Contains and CaseSensitiveEqual;
\* two of them, under NoMatch, with the caller's base_sort and sorter
\* closures and with kept diacritics; no keys under the default threshold
\* with two of the sorter closures.
OptionProfiles ==
    LET few == { OptionsWith(k, NoMatch) : k \in FewKeyConfigs }
    IN { OptionsWith(k, Matches(1, 1)) : k \in KeyConfigs }
       \cup few \cup { OptionsWith(<< Key_new("none") >>, NoMatch) }
       \cup { OptionsWith(k, t) :
                k \in FewKeyConfigs
                      \cup { << Key_threshold(Key_new("f2"), Matches(1, 1)), Key_new("f1") >> },
                t \in { Contains, CaseSensitiveEqual } }
       \cup { [o EXCEPT !.base_sort = Some(f)] : o \in few, f \in BaseSorts }
       \cup { [o EXCEPT !.sorter = Some(f)] : o \in few, f \in Sorters }
       \cup { [OptionsWith(<<>>, Matches(1, 1)) EXCEPT !.sorter = Some(f)] :
                f \in { "reverse", "duplicate" } }
       \cup { [o EXCEPT !.keep_diacritics = TRUE] : o \in few }

\* The calls: the query "ab" under every options profile, and the empty
\* query under four of them.
Calls ==
    { [value |-> <<97, 98>>, options |-> o] : o \in OptionProfiles }
    \cup { [value |-> <<>>, options |-> OptionsWith(k, NoMatch)] : k \in FewKeyConfigs }
    \cup { [value |-> <<>>,
            options |-> [OptionsWith(<<>>, NoMatch) EXCEPT !.base_sort = Some(f)]] :
               f \in { "always_equal", "less_unless_same" } }

Init ==
    /\ pc = "ms_call"
    /\ items \in UNION { [1..n -> ItemPool] : n \in 0..MaxItems }
    /\ \E call \in Calls : value = call.value /\ options = call.options
    /\ pq = PreparedQuery_new(<<>>, FALSE) /\ finder = None /\ candidate_buf = <<>>
    /\ index = 0 /\ ranked_items = <<>> /\ output = <<>>
    /\ RankIdle
    /\ OrdIdle
    /\ HighestIdle

\* match_sorter up to its loop: the query is prepared once.
Prepare ==
    /\ pc = "ms_call"
    /\ pq' = PreparedQuery_new(value, options.keep_diacritics)
    /\ finder' = Finder_for(pq')
    /\ candidate_buf' = <<>>
    /\ ranked_items' = <<>>
    /\ index' = 0
    /\ pc' = "ms_rank"
    /\ UNCHANGED <<items, value, options, output, rankVars, ordVars, highest, ordering>>

\* What the loop body computes for one item: rank, ranked_value, key_index
\* and key_threshold, and candidate_buf as it leaves it.
rank_item(item) ==
    IF options.keys = <<>>
    THEN LET got == get_match_ranking_prepared(as_match_str(item), pq,
                        options.keep_diacritics, candidate_buf, finder)
         IN [rank |-> got.rank, ranked_value |-> as_match_str(item), key_index |-> 0,
             key_threshold |-> None, candidate_buf |-> got.candidate_buf]
    ELSE LET got == get_highest_ranking_prepared(item, options.keys, pq, options,
                        candidate_buf, finder)
         IN [rank |-> got.info.rank, ranked_value |-> got.info.ranked_value,
             key_index |-> got.info.key_index,
             key_threshold |-> got.info.key_threshold,
             candidate_buf |-> got.candidate_buf]

global_threshold_only(key_threshold, threshold) == threshold

\* A filter that lets every item pass.
threshold_ignored(key_threshold, threshold) == NoMatch

\* The per-key threshold when set, otherwise the global threshold.
effective_threshold(key_threshold, threshold) == unwrap_or(key_threshold, threshold)

\* One iteration of the loop: rank the item at position index and push it
\* when it clears the effective threshold.
RankItem ==
    /\ pc = "ms_rank"
    /\ index < Len(items)
    /\ \E got \in { rank_item(items[index + 1]) } :
          /\ candidate_buf' = got.candidate_buf
          /\ ranked_items' =
               IF ranking_ge(got.rank, effective_threshold(got.key_threshold, options.threshold))
               THEN Append(ranked_items,
                           [item |-> index, index |-> index, rank |-> got.rank,
                            ranked_value |-> got.ranked_value,
                            key_index |-> got.key_index,
                            key_threshold |-> got.key_threshold])
               ELSE ranked_items
    /\ index' = index + 1
    /\ UNCHANGED <<pc, items, value, options, pq, finder, output, rankVars, ordVars, highest, ordering>>

\* An end of match_sorter that sorts the sorter's vector once more.
SortBySorterThenComparator ==
    /\ pc = "ms_rank"
    /\ index = Len(items)
    /\ options.sorter # None
    /\ ranked_items' = sort_by(call_sorter(options.sorter[1], ranked_items), options)
    /\ output' = extract_items(ranked_items')
    /\ pc' = "ms_done"
    /\ UNCHANGED <<items, value, options, pq, finder, candidate_buf, index,
                   rankVars, ordVars, highest, ordering>>

\* The end of match_sorter with a sorter override: the sorter's vector is
\* used as returned.
SortBySorter ==
    /\ pc = "ms_rank"
    /\ index = Len(items)
    /\ options.sorter # None
    /\ ranked_items' = call_sorter(options.sorter[1], ranked_items)
    /\ output' = extract_items(ranked_items')
    /\ pc' = "ms_done"
    /\ UNCHANGED <<items, value, options, pq, finder, candidate_buf, index,
                   rankVars, ordVars, highest, ordering>>

\* The end of match_sorter without a sorter, the comparator being a total
\* order on the ranked items: the stable sort.
SortByComparator ==
    /\ pc = "ms_rank"
    /\ index = Len(items)
    /\ options.sorter = None
    /\ is_total_order(ranked_items, options)
    /\ ranked_items' = sort_by(ranked_items, options)
    /\ output' = extract_items(ranked_items')
    /\ pc' = "ms_done"
    /\ UNCHANGED <<items, value, options, pq, finder, candidate_buf, index,
                   rankVars, ordVars, highest, ordering>>

\* The same with a comparator that is not a total order on the ranked items:
\* sort_by leaves them in an unspecified order.
SortByInconsistentComparator ==
    /\ pc = "ms_rank"
    /\ index = Len(items)
    /\ options.sorter = None
    /\ ~is_total_order(ranked_items, options)
    /\ ranked_items' \in Permutations_of(ranked_items)
    /\ output' = extract_items(ranked_items')
    /\ pc' = "ms_done"
    /\ UNCHANGED <<items, value, options, pq, finder, candidate_buf, index,
                   rankVars, ordVars, highest, ordering>>

\* Or sort_by panics, and match_sorter returns nothing.
SortByPanics ==
    /\ pc = "ms_rank"
    /\ index = Len(items)
    /\ options.sorter = None
    /\ ~is_total_order(ranked_items, options)
    /\ pc' = "ms_panicked"
    /\ UNCHANGED <<sorterVars, rankVars, ordVars, highest, ordering>>

Next ==
    \/ Prepare
    \/ RankItem
    \/ SortBySorter
    \/ SortByComparator
    \/ SortByInconsistentComparator
    \/ SortByPanics

Spec == Init /\ [][Next]_vars

-----------------------------------------------------------------------------
(* get_highest_ranking called on one item, its loops taken one iteration   *)
(* at a time.  highest.ranked records, for every value ranked so far, the  *)
(* key it came from, the counter it was given and its raw, clamped and     *)
(* promoted rank.                                                          *)

\* The ranks handed to min_ranking and max_ranking.
KeyBounds == { NoMatch, Matches(5, 4), Acronym, Contains, Equal, CaseSensitiveEqual, NaN }

\* One key with every pair of min_ranking and max_ranking, alone, behind a
\* key without values, or in front of a key with a threshold.
CallKeys ==
    LET bounded == { Key_min_ranking(Key_max_ranking(Key_new(e), max), min) :
                        e \in { "f1", "both" }, min \in KeyBounds, max \in KeyBounds }
    IN { << k >> : k \in bounded }
       \cup { << Key_new("none"), k >> : k \in bounded }
       \cup { << k, Key_threshold(Key_new("f2"), Contains) >> : k \in bounded }

InitKey ==
    /\ pc = "key_call"
    /\ \E item \in ItemPool : items = << item >>
    /\ value \in { <<97, 98>>, <<98>> }
    /\ \E k \in CallKeys : options = OptionsWith(k, Matches(1, 1))
    /\ pq = PreparedQuery_new(<<>>, FALSE) /\ finder = None /\ candidate_buf = <<>>
    /\ index = 0 /\ ranked_items = <<>> /\ output = <<>>
    /\ HighestIdle
    /\ RankIdle
    /\ OrdIdle

\* One iteration of the loop over a key's values.
RankValue ==
    /\ pc = "key_call"
    /\ highest.key <= Len(options.keys)
    /\ \E key \in { options.keys[highest.key] } :
       \E values \in { Key_extract(key, items[1]) } :
          /\ highest.val <= Len(values)
          /\ \E raw \in { get_match_ranking(values[highest.val], value,
                                             options.keep_diacritics) } :
             \E clamped \in { clamp_to_max(raw, key.max_ranking) } :
             \E r \in { promote_to_min(clamped, key.min_ranking) } :
                highest' =
                    [best |-> update_best(highest.best, r, values[highest.val],
                                          highest.key_index, key),
                     key_index |-> highest.key_index + 1,
                     key |-> highest.key,
                     val |-> highest.val + 1,
                     ranked |-> Append(highest.ranked,
                                   [key |-> highest.key, value |-> values[highest.val],
                                    key_index |-> highest.key_index,
                                    raw |-> raw, clamped |-> clamped, rank |-> r])]
    /\ UNCHANGED <<pc, rankVars, ordVars, sorterVars, ordering>>

\* The loop over a key's values is exhausted: on to the next key.
NextKey ==
    /\ pc = "key_call"
    /\ highest.key <= Len(options.keys)
    /\ highest.val > Len(Key_extract(options.keys[highest.key], items[1]))
    /\ highest' = [highest EXCEPT !.key = @ + 1, !.val = 1]
    /\ UNCHANGED <<pc, rankVars, ordVars, sorterVars, ordering>>

\* The loop over the keys is exhausted: best is returned.
ReturnBest ==
    /\ pc = "key_call"
    /\ highest.key > Len(options.keys)
    /\ pc' = "key_done"
    /\ UNCHANGED <<rankVars, ordVars, sorterVars, highest, ordering>>

NextHighest == RankValue \/ NextKey \/ ReturnBest

SpecKey == InitKey /\ [][NextHighest]_vars

-----------------------------------------------------------------------------
(* sort_ranked_values called on two ranked items and a base_sort.          *)

\* The ranked items compared: ranks of two tiers, two sub-scores and a NaN
\* sub-score, two key indexes, two ranked values.
ComparedItems ==
    { [item |-> 0, index |-> 0, rank |-> r, ranked_value |-> v, key_index |-> k,
       key_threshold |-> None] :
        r \in { Contains, Acronym, Matches(3, 2), Matches(5, 4), NaN },
        v \in { <<97, 98>>, <<97, 99, 98>> },
        k \in { 0, 1 } }

BaseSortNames == { "default_base_sort" } \cup BaseSorts

InitCompare ==
    /\ pc = "compare_call"
    /\ \E a, b \in ComparedItems :
          ranked_items = << a, [b EXCEPT !.item = 1, !.index = 1] >>
    /\ \E f \in BaseSortNames :
          options = [MatchSorterOptions_default EXCEPT !.base_sort = Some(f)]
    /\ items = <<>> /\ value = <<>>
    /\ pq = PreparedQuery_new(<<>>, FALSE) /\ finder = None /\ candidate_buf = <<>>
    /\ index = 0 /\ output = <<>>
    /\ HighestIdle
    /\ RankIdle
    /\ OrdIdle

SortRankedValues ==
    /\ pc = "compare_call"
    /\ ordering' =
          [result |-> sort_ranked_values(ranked_items[1], ranked_items[2],
                                         options.base_sort[1]),
           base_sort_calls |-> base_sort_calls(ranked_items[1], ranked_items[2])]
    /\ pc' = "compare_done"
    /\ UNCHANGED <<rankVars, ordVars, sorterVars, highest>>

NextCompare == SortRankedValues

SpecCompare == InitCompare /\ [][NextCompare]_vars

-----------------------------------------------------------------------------
(* Vocabulary of the properties. *)

\* The position of a tier in the documented order, worst first.
TierOrder ==
    << "NoMatch", "Matches", "Acronym", "Contains", "WordStartsWith",
       "StartsWith", "Equal", "CaseSensitiveEqual" >>
TierPos(r) == CHOOSE i \in 1..Len(TierOrder) : TierOrder[i] = r.tag

Flip(o) == CASE o = "Less" -> "Greater" [] o = "Greater" -> "Less" [] OTHER -> o

\* The documented order of two Ranking values without NaN.
DocumentedCmp(a, b) ==
    IF TierPos(a) # TierPos(b) THEN int_cmp(TierPos(a), TierPos(b))
    ELSE IF a.tag = "Matches" THEN int_cmp(a.num * b.den, b.num * a.den)
    ELSE "Equal"

\* A string as the classifier sees it: unchanged when diacritics are kept,
\* otherwise decomposed and without its combining marks.
Normalized(s, keep) == IF keep THEN s ELSE SelectSeq(nfd(s), LAMBDA c : c \notin {769, 775})

NormCand == Normalized(test_string, keep_diacritics)
NormQuery == Normalized(string_to_rank, keep_diacritics)
\* The lowercased forms the classifier searches: the query through
\* str::to_lowercase, the candidate character by character.
LowerCand == chars_to_lowercase(NormCand)
LowerQuery == str_to_lowercase(NormQuery)

\* q occurs in c at character position p (0-based).
OccursAt(q, c, p) == p + Len(q) <= Len(c) /\ SubSeq(c, p + 1, p + Len(q)) = q
Occurrences(q, c) == { p \in 0..Len(c) : OccursAt(q, c, p) }

\* r >= t in the documented order; a NaN sub-score is neither above, below
\* nor equal to another Matches.
AtLeast(r, t) ==
    IF r.tag = "Matches" /\ t.tag = "Matches" /\ (is_nan(r) \/ is_nan(t)) THEN FALSE
    ELSE DocumentedCmp(r, t) # "Less"

\* r above t, r below t in the documented order.
Above(r, t) == ~AtLeast(t, r) /\ AtLeast(r, t)
Below(r, t) == ~AtLeast(r, t) /\ AtLeast(t, r)

\* The best ranking of the item at position i (0-based) of the input slice,
\* by the entry points that prepare nothing ahead.
BestOf(i) ==
    IF options.keys = <<>>
    THEN [rank |-> get_match_ranking(as_match_str(items[i + 1]), value,
                                     options.keep_diacritics),
          ranked_value |-> as_match_str(items[i + 1]), key_index |-> 0,
          key_threshold |-> None]
    ELSE get_highest_ranking(items[i + 1], options.keys, value, options)

\* How many times position i occurs in a sequence of references.
Occurs(i, refs) == Cardinality({ k \in 1..Len(refs) : refs[k] = i })

\* A best ranking clears its effective threshold: the winning key's when it
\* sets one, the global one otherwise.
Clears(info) ==
    AtLeast(info.rank, IF info.key_threshold # None THEN info.key_threshold[1]
                       ELSE options.threshold)

\* The item at position i clears its effective threshold.
Passes(i) == Clears(BestOf(i))

\* The ranked items hold the item at position i, of best ranking info, once
\* with that ranking when it clears its threshold, and not at all otherwise.
KeptIffClears(i, info) ==
    IF Clears(info)
    THEN /\ Occurs(i, extract_items(ranked_items)) = 1
         /\ \A k \in 1..Len(ranked_items) :
               ranked_items[k].index = i
                  => /\ ranked_items[k].rank = info.rank
                     /\ ranked_items[k].key_threshold = info.key_threshold
    ELSE Occurs(i, extract_items(ranked_items)) = 0

\* The tiebreaker of the call on two ranked items.
Tiebreak(a, b) ==
    IF options.base_sort # None THEN call_base_sort(options.base_sort[1], a, b)
    ELSE str_cmp(a.ranked_value, b.ranked_value)

NoNaNRank == \A k \in 1..Len(ranked_items) : ~is_nan(ranked_items[k].rank)

\* The tiebreaker orders the ranked items consistently (a total preorder).
TiebreakIsConsistent ==
    LET n == Len(ranked_items)
        t(i, j) == Tiebreak(ranked_items[i], ranked_items[j])
    IN /\ \A i, j \in 1..n : t(i, j) = Flip(t(j, i))
       /\ \A i, j, k \in 1..n :
             (t(i, j) # "Greater" /\ t(j, k) # "Greater")
                => /\ t(i, k) # "Greater"
                   /\ (t(i, j) = "Less" \/ t(j, k) = "Less") => t(i, k) = "Less"

\* The ranks are equal; two ranks that cannot be compared (a NaN sub-score)
\* count as equal, as the comparator takes them.
RanksEqual(a, b) == ranking_eq(a.rank, b.rank) \/ partial_cmp(a.rank, b.rank) = "None"

\* a may stand immediately before b in the order of the three levels.
InOrder(a, b) ==
    \/ ranking_gt(a.rank, b.rank)
    \/ RanksEqual(a, b) /\ a.key_index < b.key_index
    \/ RanksEqual(a, b) /\ a.key_index = b.key_index /\ Tiebreak(b, a) # "Less"

\* Rank, key_index and tiebreaker result are all equal.
FullyEqual(a, b) ==
    RanksEqual(a, b) /\ a.key_index = b.key_index /\ Tiebreak(a, b) = "Equal"

-----------------------------------------------------------------------------
(* C1: Ranking values without NaN are totally ordered as                   *)
(* CaseSensitiveEqual > Equal > StartsWith > WordStartsWith > Contains >   *)
(* Acronym > Matches(s) > NoMatch for every sub-score s, two Matches by    *)
(* their sub-scores; partial_cmp is defined, antisymmetric and transitive, *)
(* and == holds exactly when the comparison is Equal.                      *)
C1_RankingTotalOrder ==
    (pc = "ord_done" /\ ~is_nan(ord_a) /\ ~is_nan(ord_b) /\ ~is_nan(ord_c)) =>
        /\ ord_out.ab # "None"
        /\ ord_out.ab = DocumentedCmp(ord_a, ord_b)
        /\ ord_out.ba = Flip(ord_out.ab)
        /\ (ord_out.ab \in {"Greater", "Equal"} /\ ord_out.bc \in {"Greater", "Equal"})
              => ord_out.ac = (IF ord_out.ab = "Equal" /\ ord_out.bc = "Equal"
                               THEN "Equal" ELSE "Greater")
        /\ ord_out.eq_ab <=> (ord_out.ab = "Equal")

\* A Matches with a sub-score above 2.0 compared with Acronym, and two
\* Matches compared with each other.
C1_Witness ==
    /\ pc = "ord_done"
    /\ ord_a = Matches(3, 1) /\ ord_b = Acronym /\ ord_c = Matches(5, 4)
    /\ ord_out.ab = "Less" /\ ord_out.ac = "Greater"

-----------------------------------------------------------------------------
-----------------------------------------------------------------------------
(* C7: get_match_ranking(s, s, false) is CaseSensitiveEqual for every s.   *)
C7_SelfIsCaseSensitiveEqual ==
    (pc = "rank_done" /\ ~keep_diacritics /\ string_to_rank = test_string)
        => rank = CaseSensitiveEqual

\* A non-ASCII s that normalization leaves non-ASCII.
C7_Witness ==
    /\ pc = "rank_done" /\ ~keep_diacritics
    /\ string_to_rank = test_string
    /\ ~is_ascii(NormCand)
    /\ rank = CaseSensitiveEqual

-----------------------------------------------------------------------------
-----------------------------------------------------------------------------
(* C9: when the normalized strings are not identical and the lowercased    *)
(* query is found at position 0 of the lowercased candidate, the result is *)
(* Equal when the lowercased strings have equal length and StartsWith      *)
(* otherwise.                                                              *)
C9_PrefixIsEqualOrStartsWith ==
    (pc = "rank_done" /\ NormCand # NormQuery /\ OccursAt(LowerQuery, LowerCand, 0))
        => rank = (IF Len(LowerCand) = Len(LowerQuery) THEN Equal ELSE StartsWith)

-----------------------------------------------------------------------------
(* C10: when the lowercased query occurs in the lowercased candidate but   *)
(* not at position 0, the result is WordStartsWith if and only if some     *)
(* occurrence is immediately preceded by a space, and Contains otherwise.  *)
C10_WordStartsWithIffSomeOccurrenceAfterSpace ==
    (/\ pc = "rank_done"
     /\ Occurrences(LowerQuery, LowerCand) # {}
     /\ ~OccursAt(LowerQuery, LowerCand, 0))
        => rank = (IF \E p \in Occurrences(LowerQuery, LowerCand) : LowerCand[p] = 32
                   THEN WordStartsWith ELSE Contains)

-----------------------------------------------------------------------------
(* C2: in match_sorter the effective threshold of an item is the per-key   *)
(* threshold of its winning key when that key sets one, otherwise          *)
(* options.threshold; the item is passed to the sort phase if and only if  *)
(* its best rank >= the effective threshold.  Every item the loop has      *)
(* ranked is in ranked_items once when it passes and not at all otherwise, *)
(* with its best rank.                                                     *)
C2_PassedIffAtLeastEffectiveThreshold ==
    pc = "ms_rank" =>
        /\ \A i \in 0..(index - 1) : KeptIffClears(i, BestOf(i))
        /\ \A k \in 1..Len(ranked_items) : ranked_items[k].index < index

\* The loop has ended and has kept an item whose winning key sets a
\* threshold below the global one: its rank clears the former and not the
\* latter.
C2_Witness ==
    /\ pc = "ms_rank" /\ index = Len(items) /\ index >= 2
    /\ \E k \in 1..Len(ranked_items) :
          /\ ranked_items[k].key_threshold = Some(Matches(1, 1))
          /\ ranked_items[k].rank = Matches(3, 2)
          /\ options.threshold = Contains

-----------------------------------------------------------------------------
(* C3 as claimed: for any items, query and options, a caller-supplied      *)
(* sorter or base_sort included, the output of match_sorter contains every *)
(* input item that passed the threshold filter exactly once and no other   *)
(* item.                                                                   *)
C3_OutputIsThePassingItemsOnce ==
    pc = "ms_done" =>
        \A i \in 0..(Len(items) - 1) : Occurs(i, output) = (IF Passes(i) THEN 1 ELSE 0)

(* C3 amended: without a sorter override, whatever the base_sort, the      *)
(* output match_sorter returns contains every input item that passed the   *)
(* threshold filter exactly once and no other item.                        *)
C3_OutputIsThePassingItemsOnceWithoutSorter ==
    (pc = "ms_done" /\ options.sorter = None) =>
        /\ \A i \in 0..(Len(items) - 1) : Occurs(i, output) = (IF Passes(i) THEN 1 ELSE 0)
        /\ \A k \in 1..Len(output) : output[k] \in 0..(Len(items) - 1)

\* A call without a sorter has returned: of three items the filter dropped
\* the first and the sort exchanged the other two.
C3_Witness ==
    /\ pc = "ms_done" /\ options.sorter = None
    /\ Len(items) = 3
    /\ output = <<2, 1>>

-----------------------------------------------------------------------------
-----------------------------------------------------------------------------
-----------------------------------------------------------------------------
(* C11: a query of exactly one character that does not occur as a          *)
(* substring of the lowercased candidate yields NoMatch, never Acronym or  *)
(* Matches.                                                                *)
C11_SingleCharQueryNotFoundIsNoMatch ==
    (/\ pc = "rank_done"
     /\ Len(string_to_rank) = 1
     /\ Occurrences(LowerQuery, LowerCand) = {})
        => rank = NoMatch

-----------------------------------------------------------------------------
(* C12: when the query has at least two characters and does not occur as a *)
(* substring of the lowercased candidate, the result is Acronym if and     *)
(* only if the acronym of the lowercased candidate contains the lowercased *)
(* query, and otherwise the result of get_closeness_ranking on the         *)
(* lowercased candidate and the lowercased query.                          *)
C12_AcronymElseCloseness ==
    (/\ pc = "rank_done"
     /\ Len(NormQuery) >= 2
     /\ Occurrences(LowerQuery, LowerCand) = {})
        => rank = (IF Occurrences(LowerQuery, get_acronym(LowerCand)) # {} THEN Acronym
                   ELSE get_closeness_ranking(LowerCand, LowerQuery))

-----------------------------------------------------------------------------
\* The assignments of query characters to candidate positions (1-based) that
\* take, for each query character in order, the earliest position after the
\* one taken for the previous character.
GreedyMatches(c, q) ==
    { f \in [1..Len(q) -> 1..Len(c)] :
        \A k \in 1..Len(q) :
            LET prev == IF k = 1 THEN 0 ELSE f[k - 1]
            IN /\ f[k] > prev
               /\ c[f[k]] = q[k]
               /\ \A p \in (prev + 1)..(f[k] - 1) : c[p] # q[k] }

GreedySpread(f) == IF Len(f) = 0 THEN 0 ELSE f[Len(f)] - f[1]

(* C13: get_closeness_ranking matches each query character, in order, to   *)
(* the earliest candidate position strictly after the previous match; it   *)
(* returns NoMatch when some character cannot be matched, Matches(2.0)     *)
(* when last minus first matched position is 0, and Matches(1 + 1/spread)  *)
(* otherwise, the spread counted in characters; every Matches it returns   *)
(* has a sub-score in (1.0, 2.0].                                          *)
C13_ClosenessIsGreedySpreadScore ==
    pc = "closeness_done" =>
        /\ GreedyMatches(test_string, string_to_rank) = {} => rank = NoMatch
        /\ \A f \in GreedyMatches(test_string, string_to_rank) :
              rank = (IF GreedySpread(f) = 0 THEN Matches(2, 1)
                      ELSE Matches(GreedySpread(f) + 1, GreedySpread(f)))
        /\ rank.tag \in {"NoMatch", "Matches"}
        /\ rank.tag = "Matches" =>
              rank.den > 0 /\ rank.num > rank.den /\ rank.num <= 2 * rank.den

\* "abab" against "bb": the second b is taken at position 3, not again at
\* position 1, and the spread of 2 gives 1.5.
C13_Witness ==
    /\ pc = "closeness_done"
    /\ test_string = <<97, 98, 97, 98>> /\ string_to_rank = <<98, 98>>
    /\ rank = Matches(3, 2)

-----------------------------------------------------------------------------
\* The positions (1-based) of the characters get_acronym is documented to
\* keep: the first, and every non-delimiter right after a space or hyphen.
AcronymPositions(s) ==
    { i \in 1..Len(s) :
        i = 1 \/ (s[i - 1] \in {32, 45} /\ s[i] \notin {32, 45}) }

(* C14: get_acronym(s) is the first character of s followed by every       *)
(* non-delimiter character whose immediately preceding character is a      *)
(* delimiter, the delimiters being exactly space and hyphen (underscore is  *)
(* none); a run of delimiters contributes only the first non-delimiter     *)
(* after it, a trailing delimiter contributes nothing, and the empty       *)
(* string gives the empty acronym.                                         *)
C14_AcronymIsWordInitials ==
    pc = "acronym_done" =>
        /\ Len(acronym) = Cardinality(AcronymPositions(test_string))
        /\ \A i \in AcronymPositions(test_string) :
              acronym[Cardinality({ j \in AcronymPositions(test_string) : j <= i })]
                  = test_string[i]
        /\ (Len(test_string) >= 2 /\ test_string[Len(test_string)] \in {32, 45})
              => acronym = get_acronym(SubSeq(test_string, 1, Len(test_string) - 1))
        /\ test_string = <<>> => acronym = <<>>

\* "a_-a": the underscore starts no word, the hyphen starts one.
C14_Witness ==
    /\ pc = "acronym_done"
    /\ test_string = <<97, 95, 45, 97>>
    /\ acronym = <<97, 97>>

-----------------------------------------------------------------------------
\* The key a ranked value came from.
KeyOf(e) == options.keys[e.key]

(* C15: in get_highest_ranking the rank a value contributes never exceeds  *)
(* its key's max_ranking, whatever min_ranking and max_ranking the key was *)
(* built with, and a raw rank at or below max_ranking is not lowered.      *)
C15_ContributedRankNeverExceedsMax ==
    \A n \in 1..Len(highest.ranked) :
        LET e == highest.ranked[n]
        IN /\ ~Above(e.rank, KeyOf(e).max_ranking)
           /\ ~Above(e.raw, KeyOf(e).max_ranking)
                 => (e.clamped = e.raw /\ ~Below(e.rank, e.raw))

-----------------------------------------------------------------------------
(* C16: a value whose (possibly clamped) rank is below its key's           *)
(* min_ranking and is not NoMatch is promoted to exactly min_ranking;      *)
(* NoMatch is never promoted; a rank at or above min_ranking is unchanged. *)
C16_PromotedToMinUnlessNoMatch ==
    \A n \in 1..Len(highest.ranked) :
        LET e == highest.ranked[n]
        IN /\ (Below(e.clamped, KeyOf(e).min_ranking) /\ e.clamped # NoMatch)
                 => e.rank = KeyOf(e).min_ranking
           /\ e.clamped = NoMatch => e.rank = NoMatch
           /\ AtLeast(e.clamped, KeyOf(e).min_ranking) => e.rank = e.clamped

\* A key with min_ranking Equal has ranked "c", which does not match "b" and
\* stays NoMatch, and "ab", a Contains promoted to Equal.
C16_Witness ==
    /\ pc = "key_done"
    /\ Len(highest.ranked) = 2
    /\ KeyOf(highest.ranked[1]).min_ranking = Equal
    /\ highest.ranked[1].clamped = NoMatch /\ highest.ranked[1].rank = NoMatch
    /\ highest.ranked[2].clamped = Contains /\ highest.ranked[2].rank = Equal

-----------------------------------------------------------------------------
\* The values of all keys of an item, in key order then value order.
RECURSIVE FlatValues(_, _)
FlatValues(item, keys) ==
    IF keys = <<>> THEN <<>>
    ELSE Key_extract(Head(keys), item) \o FlatValues(item, Tail(keys))

(* C17: get_highest_ranking numbers the values of all keys with a          *)
(* sequential key_index from 0 (a key without values uses up no number);   *)
(* when some value ranks above NoMatch, the best it holds is the maximum   *)
(* adjusted rank of the values ranked, with the ranked_value, key_index    *)
(* and key threshold of the lowest-numbered value attaining it, so a later *)
(* value of equal rank never replaces an earlier one; at the end it is     *)
(* over all values of all keys and is what the function returns.           *)
C17_BestIsFirstMaximumOverFlattenedValues ==
    LET ranked == highest.ranked
        best == highest.best
        attain == { n \in 1..Len(ranked) : ranked[n].rank = best.rank }
    IN /\ \A n \in 1..Len(ranked) :
             /\ ranked[n].key_index = n - 1
             /\ ranked[n].value = FlatValues(items[1], options.keys)[n]
       /\ highest.key_index = Len(ranked)
       /\ (\E n \in 1..Len(ranked) : Above(ranked[n].rank, NoMatch)) =>
             /\ \A n \in 1..Len(ranked) : ~Above(ranked[n].rank, best.rank)
             /\ attain # {}
             /\ \A n \in attain :
                   (\A m \in attain : n <= m) =>
                       /\ best.key_index = n - 1
                       /\ best.ranked_value = ranked[n].value
                       /\ best.key_threshold = KeyOf(ranked[n]).threshold
       /\ pc = "key_done" =>
             /\ Len(ranked) = Len(FlatValues(items[1], options.keys))
             /\ best = get_highest_ranking(items[1], options.keys, value, options)

\* Behind a key without values, "ab" and "Ab" both contain "b": the first
\* is numbered 0 and stays the best.
C17_Witness ==
    /\ pc = "key_done"
    /\ Len(options.keys) = 2 /\ options.keys[1].extractor = "none"
    /\ Len(highest.ranked) = 2
    /\ highest.ranked[1].rank = Contains /\ highest.ranked[2].rank = Contains
    /\ highest.best.key_index = 0 /\ highest.best.ranked_value = <<97, 98>>

-----------------------------------------------------------------------------
\* The best adjusted rank the key at position k alone gives the item at
\* position i (0-based).
OwnRank(i, k) ==
    get_highest_ranking(items[i + 1], << options.keys[k] >>, value, options).rank

\* The key at position k matches the item at position i and the match meets
\* the key's effective threshold.
MeetsOwnThreshold(i, k) ==
    /\ OwnRank(i, k) # NoMatch
    /\ AtLeast(OwnRank(i, k), IF options.keys[k].threshold # None
                              THEN options.keys[k].threshold[1]
                              ELSE options.threshold)

(* C18: when a key sets a threshold and its match for an item is below     *)
(* it, that match counts as NoMatch for the key: an item for which another *)
(* key gives a lower rank that meets that other key's own effective        *)
(* threshold is still kept by the ranking loop.                            *)
C18_MatchBelowKeyThresholdCountsAsNoMatch ==
    (pc = "ms_rank" /\ index = Len(items)) =>
        \A i \in 0..(Len(items) - 1) :
        \A k, other \in 1..Len(options.keys) :
            (/\ options.keys[k].threshold # None
             /\ OwnRank(i, k) # NoMatch
             /\ ~MeetsOwnThreshold(i, k)
             /\ Below(OwnRank(i, other), OwnRank(i, k))
             /\ MeetsOwnThreshold(i, other))
                => Occurs(i, extract_items(ranked_items)) = 1

-----------------------------------------------------------------------------
(* C19: sort_ranked_values calls the tiebreaker only when the rank         *)
(* comparison and the key_index comparison are both equal (ranks that      *)
(* cannot be compared count as equal); otherwise it does not call it, and  *)
(* the ordering returned is the same whatever the tiebreaker is.           *)
C19_TiebreakerOnlyOnEqualRankAndKeyIndex ==
    pc = "compare_done" =>
        LET a == ranked_items[1]
            b == ranked_items[2]
            tied == RanksEqual(a, b) /\ a.key_index = b.key_index
        IN /\ ordering.base_sort_calls = (IF tied THEN 1 ELSE 0)
           /\ ~tied => \A f \in BaseSortNames :
                           sort_ranked_values(a, b, f) = ordering.result
           /\ ~tied => ordering.result # "Equal"

\* Contains against Matches(1.5) with equal key_index and values the
\* tiebreaker would order the other way: the tiebreaker is not called.
C19_Witness ==
    /\ pc = "compare_done"
    /\ ranked_items[1].rank = Contains /\ ranked_items[2].rank = Matches(3, 2)
    /\ ranked_items[1].key_index = ranked_items[2].key_index
    /\ Tiebreak(ranked_items[1], ranked_items[2]) = "Greater"
    /\ ordering = [result |-> "Less", base_sort_calls |-> 0]

-----------------------------------------------------------------------------
-----------------------------------------------------------------------------
\* The ranked items of the input positions from i on (0-based) that clear
\* their effective threshold, in input order, each with its position as
\* index.
RankedEntry(i, info) ==
    [item |-> i, index |-> i, rank |-> info.rank, ranked_value |-> info.ranked_value,
     key_index |-> info.key_index, key_threshold |-> info.key_threshold]

PassingEntry(i, info) == IF Clears(info) THEN << RankedEntry(i, info) >> ELSE <<>>

RECURSIVE PassingFrom(_)
PassingFrom(i) ==
    IF i >= Len(items) THEN <<>>
    ELSE PassingEntry(i, BestOf(i)) \o PassingFrom(i + 1)

(* C21: with options.sorter supplied, match_sorter calls it once, with     *)
(* exactly the items that passed the threshold filter, in input order and  *)
(* each with index equal to its input position; the output is the items of *)
(* the vector it returns, in its order, and neither the default comparator *)
(* nor base_sort is applied.                                               *)
C21_SorterGetsPassingItemsAndIsUsedVerbatim ==
    (pc = "ms_done" /\ options.sorter # None) =>
        /\ ranked_items = call_sorter(options.sorter[1], PassingFrom(0))
        /\ output = [k \in 1..Len(ranked_items) |-> ranked_items[k].item]

\* Three items under the default threshold and the reversing sorter: the
\* second is filtered out, and the output is the third, then the first,
\* the lower rank in front, where the default comparator would put it last.
C21_Witness ==
    /\ pc = "ms_done" /\ options.sorter = Some("reverse")
    /\ options.threshold = Matches(1, 1)
    /\ Len(items) = 3 /\ output = <<2, 0>>
    /\ ranking_lt(ranked_items[1].rank, ranked_items[2].rank)

-----------------------------------------------------------------------------
\* No key of the call sets a threshold of its own.
NoKeyThreshold == \A k \in 1..Len(options.keys) : options.keys[k].threshold = None

\* In the output every item ranked above NoMatch stands before every item
\* ranked NoMatch.
MatchedBeforeUnmatched ==
    \A k, l \in 1..Len(output) :
        (BestOf(output[k]).rank = NoMatch /\ Above(BestOf(output[l]).rank, NoMatch))
            => l < k

-----------------------------------------------------------------------------
\* Every character of s is c.
AllOf(s, c) == s # <<>> /\ \A i \in 1..Len(s) : s[i] = c

-----------------------------------------------------------------------------
(* C24: the rank match_sorter computes for a candidate through the shared  *)
(* PreparedQuery, the shared searcher and the reused lowercase buffer is   *)
(* the rank get_match_ranking gives that candidate alone, whatever was     *)
(* ranked before it and whatever the buffer was left holding.              *)
C24_AmortizedRankEqualsRankAlone ==
    (pc = "ms_rank" /\ index < Len(items)) =>
        /\ rank_item(items[index + 1]).rank = BestOf(index).rank
        /\ \A v \in { items[index + 1].f1, items[index + 1].f2 } :
              get_match_ranking_prepared(v, pq, options.keep_diacritics,
                                         candidate_buf, finder).rank
                  = get_match_ranking(v, value, options.keep_diacritics)

\* "accb" was lowercased into the buffer, "ab" returned as an exact match
\* without touching it, and "accb" is ranked next, over the stale buffer.
C24_Witness ==
    /\ pc = "ms_rank" /\ options.keys = <<>> /\ value = <<97, 98>>
    /\ index = 2 /\ Len(items) = 3
    /\ items[1].f1 = <<97, 99, 99, 98>> /\ items[2].f1 = <<97, 98>>
    /\ items[3].f1 = <<97, 99, 99, 98>>
    /\ Len(ranked_items) = 2
    /\ ranked_items[2].rank = CaseSensitiveEqual
    /\ candidate_buf = <<97, 99, 99, 98>>
    /\ rank_item(items[3]).rank = Matches(4, 3)

-----------------------------------------------------------------------------
\* v is w with its entries in some order.
IsPermutationOf(v, w) ==
    /\ Len(v) = Len(w)
    /\ \A k \in 1..Len(w) :
          Cardinality({ l \in 1..Len(v) : v[l] = w[k] })
              = Cardinality({ l \in 1..Len(w) : w[l] = w[k] })

-----------------------------------------------------------------------------
(* C26: the length test and the exact-equality test of get_match_ranking   *)
(* work on the normalized forms, not yet lowercased: the query's character *)
(* count compared with the candidate's is the normalized query's, so a     *)
(* normalized candidate equal to the normalized query byte for byte ranks  *)
(* CaseSensitiveEqual, for either value of keep_diacritics.                *)
C26_EqualNormalizedFormsAreCaseSensitiveEqual ==
    (pc = "rank_done" /\ as_bytes(NormCand) = as_bytes(NormQuery))
        => rank = CaseSensitiveEqual

-----------------------------------------------------------------------------
(* C27: whenever get_match_ranking returns Matches(s), the query has at    *)
(* least two characters and s is 1 + 1/spread for a spread of at least the *)
(* query's character count, hence of at least 2: get_match_ranking never   *)
(* returns Matches(2.0).                                                   *)
C27_MatchesHasSpreadOfAtLeastQueryLength ==
    (pc = "rank_done" /\ rank.tag = "Matches") =>
        /\ Len(NormQuery) >= 2
        /\ rank # Matches(2, 1)
        /\ \E spread \in 2..(2 * MaxCandLen) :
              /\ spread >= Len(NormQuery)
              /\ rank = Matches(spread + 1, spread)

-----------------------------------------------------------------------------
(* C28: in keys mode, when no value extracted from an item ranks above     *)
(* NoMatch (also when no value is extracted at all), get_highest_ranking   *)
(* returns rank NoMatch, key_index 0, an empty ranked_value and no key     *)
(* threshold, even if every key sets one; match_sorter then filters the    *)
(* item against options.threshold alone and keeps it exactly when that is  *)
(* NoMatch.                                                                *)
C28_UnmatchedItemFallsBackToGlobalThreshold ==
    (pc = "ms_rank" /\ index = Len(items) /\ options.keys # <<>>) =>
        \A i \in 0..(Len(items) - 1) :
            (\A k \in 1..Len(options.keys) : ~Above(OwnRank(i, k), NoMatch)) =>
                /\ BestOf(i) = [rank |-> NoMatch, ranked_value |-> <<>>,
                                key_index |-> 0, key_threshold |-> None]
                /\ Occurs(i, extract_items(ranked_items))
                      = (IF options.threshold = NoMatch THEN 1 ELSE 0)

\* The only key sets threshold NoMatch and finds no match in "c": under the
\* default global threshold the item is dropped all the same.
C28_Witness ==
    /\ pc = "ms_rank" /\ index = Len(items) /\ Len(items) = 2
    /\ options.keys = << Key_threshold(Key_new("f1"), NoMatch) >>
    /\ options.threshold = Matches(1, 1)
    /\ items[1].f1 = <<99>>
    /\ extract_items(ranked_items) = <<1>>

-----------------------------------------------------------------------------
\* The ranked items of the comparator's inputs whose rank is no NaN.
ComparedWithoutNaN == { c \in ComparedItems : ~is_nan(c.rank) }

(* C29: on ranked items without NaN ranks and with the default tiebreaker  *)
(* sort_ranked_values is a consistent total preorder: compare(a, b) is the *)
(* reverse of compare(b, a), the relation is transitive, and compare(a, b) *)
(* is Equal exactly when rank, key_index and ranked_value are equal; the   *)
(* original index and the item are not consulted.                          *)
C29_DefaultComparatorIsTotalPreorder ==
    (/\ pc = "compare_done"
     /\ options.base_sort = Some("default_base_sort")
     /\ ~is_nan(ranked_items[1].rank) /\ ~is_nan(ranked_items[2].rank)) =>
        LET a == ranked_items[1]
            b == ranked_items[2]
        IN /\ ordering.result = Flip(sort_ranked_values(b, a, "default_base_sort"))
           /\ (ordering.result = "Equal")
                 <=> (/\ a.rank = b.rank /\ a.key_index = b.key_index
                      /\ a.ranked_value = b.ranked_value)
           /\ \A c \in ComparedWithoutNaN :
                 LET bc == sort_ranked_values(b, c, "default_base_sort")
                     ac == sort_ranked_values(a, c, "default_base_sort")
                 IN /\ (ordering.result # "Greater" /\ bc # "Greater") => ac # "Greater"
                    /\ (ordering.result = "Less" /\ bc # "Greater") => ac = "Less"
                    /\ (ordering.result # "Greater" /\ bc = "Less") => ac = "Less"

\* Two ranked items of different index and item, equal in rank, key_index
\* and ranked_value, compare Equal.
C29_Witness ==
    /\ pc = "compare_done"
    /\ options.base_sort = Some("default_base_sort")
    /\ ranked_items[1].rank = Matches(3, 2) /\ ranked_items[2].rank = Matches(3, 2)
    /\ ranked_items[1].key_index = ranked_items[2].key_index
    /\ ranked_items[1].ranked_value = ranked_items[2].ranked_value
    /\ ranked_items[1].index # ranked_items[2].index
    /\ ranked_items[1].item # ranked_items[2].item
    /\ ordering.result = "Equal"

-----------------------------------------------------------------------------
\* The global thresholds the calls are compared under.
LowerThresholds == { NoMatch, Matches(1, 1), Contains, CaseSensitiveEqual }

\* In no-keys mode, the ranked items of the input positions from i on whose
\* rank is at least t, and what match_sorter returns for them under the
\* default sort.
PassingUnderEntry(i, info, t) ==
    IF AtLeast(info.rank, t) THEN << RankedEntry(i, info) >> ELSE <<>>

RECURSIVE PassingUnderFrom(_, _)
PassingUnderFrom(i, t) ==
    IF i >= Len(items) THEN <<>>
    ELSE PassingUnderEntry(i, BestOf(i), t) \o PassingUnderFrom(i + 1, t)

OutputUnder(t) == extract_items(sort_by(PassingUnderFrom(0, t), options))

\* v is w with some entries left out (the entries of w being distinct).
IsSubsequenceOf(v, w) ==
    /\ \A k \in 1..Len(v) : \E m \in 1..Len(w) : w[m] = v[k]
    /\ \A k, l \in 1..Len(v) :
          k < l => \A m, n \in 1..Len(w) : (w[m] = v[k] /\ w[n] = v[l]) => m < n

(* C30: raising the global threshold only removes items: in no-keys mode   *)
(* with the default sort, the output under a threshold is a subsequence of *)
(* the output of the same items and query under any lower threshold, the   *)
(* surviving items in the same relative order.                             *)
C30_RaisingThresholdOnlyRemovesItems ==
    (/\ pc = "ms_done" /\ options.keys = <<>>
     /\ options.sorter = None /\ options.base_sort = None) =>
        \A t \in LowerThresholds :
            AtLeast(options.threshold, t) => IsSubsequenceOf(output, OutputUnder(t))

\* Under CaseSensitiveEqual the two exact matches are returned and the
\* fuzzy match between them in the input, last under a lower threshold, is
\* not.
C30_Witness ==
    /\ pc = "ms_done" /\ options.keys = <<>>
    /\ options.sorter = None /\ options.base_sort = None
    /\ options.threshold = CaseSensitiveEqual
    /\ Len(items) = 3 /\ output = <<0, 2>>
    /\ OutputUnder(Matches(1, 1)) = <<0, 2, 1>>

====
